---- MODULE Spec2Model ----
(***************************************************************************)
(* FruchtermanReingold.fit (sknetwork/embedding/spring.py) as a state      *)
(* machine.                                                                *)
(*                                                                         *)
(* Floats are modelled in fixed point: a value v is the integer v * Scale, *)
(* and every arithmetic operation rounds toward zero, which like IEEE      *)
(* rounding is symmetric in the sign of its operands.  Arrays are objects  *)
(* on a heap (type, shape, data) so that copies and in-place updates are   *)
(* told apart.  Nodes are numbered 1..n (the code numbers them 0..n-1).    *)
(***************************************************************************)
EXTENDS Integers, Sequences, FiniteSets, TLC

(* ------------------------------ bounds -------------------------------- *)

MaxN == 3

MaxIter == 2

MaxWeight == 2

(* ------------------------- fixed-point floats ------------------------- *)

Scale == 1000

Abs(a) == IF a >= 0 THEN a ELSE -a

TDiv(a, b) == IF a >= 0 THEN a \div b ELSE -((-a) \div b)

FMul(a, b) == TDiv(a * b, Scale)

FDiv(a, b) == IF b >= 0 THEN TDiv(a * Scale, b) ELSE -TDiv(a * Scale, -b)

Float(k) == k * Scale

RECURSIVE SqrtIter(_, _)
SqrtIter(x, r) ==
    LET r2 == (r + x \div r) \div 2
    IN  IF r2 >= r THEN r ELSE SqrtIter(x, r2)

ISqrt(x) == IF x <= 0 THEN 0 ELSE SqrtIter(x, x)

FSqrt(a) == ISqrt(a * Scale)

SetMax(S) == CHOOSE x \in S : \A y \in S : y <= x

SetMin(S) == CHOOSE x \in S : \A y \in S : x <= y

RECURSIVE SeqSum(_)
SeqSum(s) == IF s = <<>> THEN 0 ELSE Head(s) + SeqSum(Tail(s))

(* the sequence <<F(1), ..., F(k)>>, built eagerly *)
RECURSIVE Tabulate(_, _)
Tabulate(F(_), k) == IF k = 0 THEN <<>> ELSE Append(Tabulate(F, k - 1), F(k))

(* np.linalg.norm of a vector given as a sequence of fixed-point values *)
Norm(s) == ISqrt(SeqSum(Tabulate(LAMBDA k : s[k] * s[k], Len(s))))

(* ------------------------------ arrays -------------------------------- *)

None == "None"

NdArray(rows, cols, data) == [type |-> "ndarray", shape |-> <<rows, cols>>, data |-> data]

Zeros(rows, cols) == [i \in 1..rows |-> [c \in 1..cols |-> 0]]

Column(a, c) == [i \in 1..Len(a) |-> a[i][c]]

Add(a, b) == [i \in 1..Len(a) |-> [c \in 1..Len(a[i]) |-> a[i][c] + b[i][c]]]

Flatten(a) == [k \in 1..(2 * Len(a)) |-> a[(k + 1) \div 2][2 - (k % 2)]]

(* faulty variant: only the number of columns is checked *)
ShapeLoose(obj, n) == obj.shape[2] = 2 /\ obj.shape[1] >= 1

(* A caller-supplied array must have exactly the shape (n, 2). *)
ShapeOK(obj, n) == obj.shape = <<n, 2>>

IsNdArray(obj) == obj.type = "ndarray"

(* ----------------------------- adjacency ------------------------------ *)

RowColumns(W, n, i) == SelectSeq([j \in 1..n |-> j], LAMBDA j : W[i][j] # 0)

RECURSIVE RowPointers(_, _, _)
RowPointers(W, n, i) ==
    IF i = 0 THEN <<0>>
    ELSE LET prev == RowPointers(W, n, i - 1)
         IN  Append(prev, prev[i] + Len(RowColumns(W, n, i)))

RECURSIVE AllColumns(_, _, _)
AllColumns(W, n, i) ==
    IF i = 0 THEN <<>> ELSE AllColumns(W, n, i - 1) \o RowColumns(W, n, i)

RECURSIVE AllValues(_, _, _)
AllValues(W, n, i) ==
    IF i = 0 THEN <<>>
    ELSE AllValues(W, n, i - 1)
         \o [k \in 1..Len(RowColumns(W, n, i)) |-> W[i][RowColumns(W, n, i)[k]]]

(* compressed sparse rows of the symmetric weight matrix W *)
CSR(n, W) ==
    [shape |-> <<n, n>>, indptr |-> RowPointers(W, n, n),
     indices |-> AllColumns(W, n, n), data |-> AllValues(W, n, n)]

PathWeights(n, w) ==
    [i \in 1..n |-> [j \in 1..n |-> IF Abs(i - j) = 1 THEN Float(w) ELSE 0]]

Graphs(n) == {CSR(n, PathWeights(n, w)) : w \in 0..MaxWeight}

EmptyGraph == CSR(0, <<>>)

RowIndices(adj, i) == SubSeq(adj.indices, adj.indptr[i] + 1, adj.indptr[i + 1])

RowData(adj, i) == SubSeq(adj.data, adj.indptr[i] + 1, adj.indptr[i + 1])

(* --------------------------- force law -------------------------------- *)

(* 0.01, 0.01, 0.1 and 0.1 in units of 1 / Scale *)
MinDistance == 10

MinLength == 10

LengthFloor == 100

StepFraction == 100

(* faulty variant: every row is taken relative to the first node *)
GradFromFirst(pos, i) ==
    Tabulate(LAMBDA j : <<pos[i][1] - pos[1][1], pos[i][2] - pos[1][2]>>, Len(pos))

Grad(pos, i) ==
    Tabulate(LAMBDA j : <<pos[i][1] - pos[j][1], pos[i][2] - pos[j][2]>>, Len(pos))

Distance(grad) ==
    Tabulate(LAMBDA j : LET d == Norm(grad[j]) IN IF d < MinDistance THEN MinDistance ELSE d,
             Len(grad))

(* attraction[indices] *= value : the entry is multiplied in place *)
InPlaceMul(old, value) == FMul(old, value)

Attraction(n, indices, data, distance, strength) ==
    LET zero == Tabulate(LAMBDA j : 0, n)
        value == Tabulate(LAMBDA k : FDiv(FMul(data[k], distance[indices[k]]), strength),
                          Len(indices))
    IN  Tabulate(LAMBDA j :
                    IF \E k \in 1..Len(indices) : indices[k] = j
                    THEN LET k == CHOOSE k \in 1..Len(indices) : indices[k] = j
                         IN  InPlaceMul(zero[j], value[k])
                    ELSE zero[j],
                 n)

Repulsion(distance, strength) ==
    Tabulate(LAMBDA j : LET p == FMul(strength, distance[j]) IN FMul(p, p), Len(distance))

NetDisplacement(grad, repulsion, attraction) ==
    <<SeqSum(Tabulate(LAMBDA j : FMul(grad[j][1], repulsion[j] - attraction[j]), Len(grad))),
      SeqSum(Tabulate(LAMBDA j : FMul(grad[j][2], repulsion[j] - attraction[j]), Len(grad)))>>

AttractionOf(p, adj, s, i) ==
    LET grad == Grad(p, i)
        distance == Distance(grad)
    IN  Attraction(Len(p), RowIndices(adj, i), RowData(adj, i), distance, s)

NodeDelta(p, adj, s, i) ==
    LET grad == Grad(p, i)
        distance == Distance(grad)
        attr == Attraction(Len(p), RowIndices(adj, i), RowData(adj, i), distance, s)
        repulsion == Repulsion(distance, s)
    IN  NetDisplacement(grad, repulsion, attr)

(* ------------------------ step size and scaling ----------------------- *)

Spread(p, c) == SetMax({p[i][c] : i \in 1..Len(p)}) - SetMin({p[i][c] : i \in 1..Len(p)})

StepMaxInit(p) ==
    LET delta_x == Spread(p, 1)
        delta_y == Spread(p, 2)
    IN  FMul(StepFraction, IF delta_x >= delta_y THEN delta_x ELSE delta_y)

StepOf(sm, iters) == FDiv(sm, Float(iters + 1))

(* faulty variant: the step is added instead of subtracted *)
CoolUp(sm, st) == sm + st

Cool(sm, st) == sm - st

DefaultStrength(n) == FSqrt(FDiv(Float(1), Float(n)))

Lengths(d) ==
    Tabulate(LAMBDA c : LET l == Norm(Column(d, c))
                        IN  IF l < MinLength THEN LengthFloor ELSE l,
             2)

ScaleDelta(d, sm, length) ==
    Tabulate(LAMBDA i : <<FDiv(FMul(d[i][1], sm), length[1]),
                          FDiv(FMul(d[i][2], sm), length[2])>>,
             Len(d))

ErrOf(d, n) == TDiv(Norm(Flatten(d)), n)

(* faulty variant: the early stop is left out *)
ConvergedNever(e, tolerance) == FALSE

(* faulty variant: the comparison is inverted *)
ConvergedInverted(e, tolerance) == e > tolerance

Converged(e, tolerance) == e < tolerance

(* faulty variant: range(n_iter + 1) *)
LoopContinuesInclusive(it, iters) == it <= iters

LoopContinues(it, iters) == it < iters

(* ------------------------------ inputs -------------------------------- *)

Points == {<<0, 0>>, <<Float(1), 0>>, <<Float(1), Float(1)>>}

PosArrays(n) == [1..n -> Points]

Tolerances == {1, 40, Float(1000)}

Strengths == {<<>>, <<Float(1) \div 2>>}

NIterArgs == {<<>>} \cup {<<k>> : k \in 0..MaxIter}

(* what an earlier fit(adjacency, pos_init = A, n_iter = 0) of a 2-node graph stored *)
EarlierEmbedding == NdArray(2, 2, <<<<0, 0>>, <<Float(1), Float(1)>>>>)

WrongShapes(n) == {<<n - 1, 2>>, <<n + 1, 2>>, <<n, 1>>, <<n, 3>>}

(* objects a caller may pass as pos_init: well-shaped arrays, ill-shaped arrays,
   and values that are no arrays (a list of rows, a string) *)
ArgObjects(n) ==
    {NdArray(n, 2, d) : d \in PosArrays(n)}
    \cup {NdArray(sh[1], sh[2], Zeros(sh[1], sh[2])) : sh \in WrongShapes(n)}
    \cup {[type |-> "list", shape |-> <<n, 2>>, data |-> Zeros(n, 2)],
          [type |-> "str", shape |-> <<>>, data |-> <<>>]}

(* GSVD(n_components=2).fit_transform(adjacency): an (n, 2) array *)
GSVDOutputs(adj, n) == {NdArray(n, 2, d) : d \in PosArrays(n)}

(* faulty variant: np.random.randn(n + 1, 2) *)
RandnExtraRow(n) == {NdArray(n + 1, 2, d) : d \in PosArrays(n + 1)}

(* np.random.randn(n, 2) *)
RandnOutputs(n) == {NdArray(n, 2, d) : d \in PosArrays(n)}

(* ------------------------------- state -------------------------------- *)

VARIABLES
    self_strength, self_n_iter, self_tol, self_pos_init,  \* constructor parameters
    embedding_,         \* reference held by self.embedding_, or None
    heap,               \* live array objects by reference
    pc,                 \* position in fit
    raised,             \* exception fit ended with, or None
    adjacency, pos_init, n,         \* fit's arguments after lines 68-72
    pos, n_iter, strength,          \* locals of fit
    step_max, step, delta, attraction, iteration, err,
    path,               \* which initialisation ran
    entry,              \* heap and embedding_ as they were when fit was called
    pos0, step_max0,    \* initial positions and initial step_max of this call
    errs                \* err of every executed iteration, in order

config == <<self_strength, self_n_iter, self_tol, self_pos_init>>

args == <<adjacency, pos_init, n>>

locals == <<pos, n_iter, strength, step_max, step, delta, attraction, iteration, err>>

history == <<path, entry, pos0, step_max0, errs>>

vars == <<config, embedding_, heap, pc, raised, args, locals, history>>

(* A constructed estimator, before or after an earlier fit has stored an
   embedding; fit is then called once. *)
Init ==
    /\ self_strength \in Strengths
    /\ self_n_iter = MaxIter
    /\ self_tol \in Tolerances
    /\ self_pos_init \in {"gsvd", "random"}
    /\ \/ embedding_ = None /\ heap = <<>>
       \/ embedding_ = "prev" /\ heap = ("prev" :> EarlierEmbedding)
    /\ pc = "idle"
    /\ raised = None
    /\ adjacency = EmptyGraph /\ pos_init = None /\ n = 0
    /\ pos = None /\ n_iter = 0 /\ strength = 0
    /\ step_max = 0 /\ step = 0 /\ delta = <<>> /\ attraction = <<>>
    /\ iteration = 0 /\ err = 0
    /\ path = None
    /\ entry = [heap |-> <<>>, embedding |-> None]
    /\ pos0 = <<>> /\ step_max0 = 0 /\ errs = <<>>

(* ---------------------------- fit: entry ------------------------------ *)

(* faulty variant: pos = pos_init, the caller's object itself *)
AliasOf(h, src) == [ref |-> src, heap |-> h]

(* pos_init.copy(): a new object with the same contents *)
CopyOf(h, src) == [ref |-> "new", heap |-> h @@ ("new" :> h[src])]

Allocate(h, obj) == [ref |-> "new", heap |-> h @@ ("new" :> obj)]

ResolveNIter(it) == IF it = <<>> THEN self_n_iter ELSE it[1]

ResolveStrength(k) == IF self_strength = <<>> THEN DefaultStrength(k) ELSE self_strength[1]

(* lines 68-72: the arguments are bound; nothing else has happened yet *)
Enter(k, adj, arg, h) ==
    /\ adjacency' = adj
    /\ n' = k
    /\ pos_init' = arg
    /\ entry' = [heap |-> h, embedding |-> embedding_]
    /\ UNCHANGED <<config, embedding_>>

(* lines 87-99: the set-up of the loop *)
Setup(k, made, it, via) ==
    LET p == made.heap[made.ref].data
        sm == StepMaxInit(p)
    IN  /\ heap' = made.heap
        /\ pos' = made.ref
        /\ n_iter' = ResolveNIter(it)
        /\ strength' = ResolveStrength(k)
        /\ step_max' = sm
        /\ step' = StepOf(sm, ResolveNIter(it))
        /\ delta' = Zeros(k, 2)
        /\ iteration' = 0
        /\ pc' = "loop"
        /\ path' = via
        /\ pos0' = p
        /\ step_max0' = sm
        /\ UNCHANGED <<raised, attraction, err, errs>>

Raise(h, exc) ==
    /\ heap' = h
    /\ raised' = exc
    /\ pc' = "raised"
    /\ UNCHANGED <<locals, path, pos0, step_max0, errs>>

FitGSVD(k, adj, arg, h, it) ==
    /\ arg = None
    /\ self_pos_init = "gsvd"
    /\ Enter(k, adj, arg, h)
    /\ \E out \in GSVDOutputs(adj, k) : Setup(k, Allocate(h, out), it, "gsvd")

FitRandom(k, adj, arg, h, it) ==
    /\ arg = None
    /\ self_pos_init # "gsvd"
    /\ Enter(k, adj, arg, h)
    /\ \E out \in RandnOutputs(k) : Setup(k, Allocate(h, out), it, "random")

FitExplicit(k, adj, arg, h, it) ==
    /\ arg # None
    /\ IsNdArray(h[arg])
    /\ ShapeOK(h[arg], k)
    /\ Enter(k, adj, arg, h)
    /\ Setup(k, CopyOf(h, arg), it, "explicit")

FitInvalidShape(k, adj, arg, h, it) ==
    /\ arg # None
    /\ IsNdArray(h[arg])
    /\ ~ShapeOK(h[arg], k)
    /\ Enter(k, adj, arg, h)
    /\ Raise(h, "ValueError")

FitInvalidType(k, adj, arg, h, it) ==
    /\ arg # None
    /\ ~IsNdArray(h[arg])
    /\ Enter(k, adj, arg, h)
    /\ Raise(h, "TypeError")

(* the caller's choices: no pos_init, a fresh object, or the array an earlier
   fit left in embedding_ *)
Calls(k) ==
    {[arg |-> None, heap |-> heap]}
    \cup {[arg |-> "arg", heap |-> heap @@ ("arg" :> obj)] : obj \in ArgObjects(k)}
    \cup {[arg |-> r, heap |-> heap] : r \in DOMAIN heap}

Fit ==
    /\ pc = "idle"
    /\ \E k \in 1..MaxN : \E adj \in Graphs(k) : \E c \in Calls(k) : \E it \in NIterArgs :
           \/ FitGSVD(k, adj, c.arg, c.heap, it)
           \/ FitRandom(k, adj, c.arg, c.heap, it)
           \/ FitExplicit(k, adj, c.arg, c.heap, it)
           \/ FitInvalidShape(k, adj, c.arg, c.heap, it)
           \/ FitInvalidType(k, adj, c.arg, c.heap, it)

(* ---------------------------- fit: the loop --------------------------- *)

(* lines 101-115: the net displacement of every node, from one snapshot of pos *)
ComputeForces ==
    /\ pc = "loop"
    /\ LoopContinues(iteration, n_iter)
    /\ LET p == heap[pos].data
       IN  /\ delta' = Tabulate(LAMBDA i : NodeDelta(p, adjacency, strength, i), n)
           /\ attraction' = Tabulate(LAMBDA i : AttractionOf(p, adjacency, strength, i), n)
    /\ pc' = "scale"
    /\ UNCHANGED <<config, embedding_, heap, raised, args, history>>
    /\ UNCHANGED <<pos, n_iter, strength, step_max, step, iteration, err>>

(* lines 116-123: normalisation, position update, cooling, convergence test *)
Update ==
    /\ pc = "scale"
    /\ LET scaled == ScaleDelta(delta, step_max, Lengths(delta))
           e == ErrOf(scaled, n)
       IN  /\ delta' = scaled
           /\ heap' = [heap EXCEPT ![pos].data = Add(@, scaled)]
           /\ step_max' = Cool(step_max, step)
           /\ err' = e
           /\ errs' = Append(errs, e)
           /\ iteration' = iteration + 1
           /\ pc' = IF Converged(e, self_tol) THEN "break" ELSE "loop"
    /\ UNCHANGED <<config, embedding_, raised, args>>
    /\ UNCHANGED <<pos, n_iter, strength, step, attraction, path, entry, pos0, step_max0>>

(* lines 125-126 *)
Return ==
    /\ \/ pc = "break"
       \/ pc = "loop" /\ ~LoopContinues(iteration, n_iter)
    /\ embedding_' = pos
    /\ pc' = "done"
    /\ UNCHANGED <<config, heap, raised, args, locals, history>>

Next == Fit \/ ComputeForces \/ Update \/ Return

Spec == Init /\ [][Next]_vars

(* ------------------------------ claims -------------------------------- *)

Entered == pc \in {"loop", "scale", "break", "done"}

Updated == iteration >= 1 /\ pc \in {"loop", "break", "done"}

Positions == heap[pos].data

Supplied == entry.heap[pos_init]

Malformed ==
    /\ pc # "idle"
    /\ pos_init # None
    /\ \/ Supplied.type # "ndarray"
       \/ Supplied.shape # <<n, 2>>

(* C1: a pos_init that is an array of a shape other than (n, 2) ends fit with
   ValueError, one that is no array with TypeError; in both cases no iteration
   has run, no position array exists, embedding_ is what it was at the call and
   no object, the supplied one included, has changed. *)
C1_MalformedRejected ==
    Malformed =>
        /\ pc = "raised"
        /\ raised = (IF Supplied.type = "ndarray" THEN "ValueError" ELSE "TypeError")
        /\ iteration = 0 /\ errs = <<>>
        /\ pos = None
        /\ embedding_ = entry.embedding
        /\ heap = entry.heap

C1_Witness ==
    /\ Malformed
    /\ raised = "ValueError"
    /\ Supplied.shape = <<n - 1, 2>>
    /\ embedding_ = "prev"

(* C2: with explicit initial positions and n_iter = 0 no iteration runs and the
   embedding returned equals the supplied positions element for element. *)
C2_ZeroIterations ==
    (pc = "done" /\ path = "explicit" /\ n_iter = 0) =>
        /\ iteration = 0
        /\ heap[embedding_].shape = Supplied.shape
        /\ heap[embedding_].data = Supplied.data

C2_Witness ==
    /\ pc = "done" /\ path = "explicit" /\ n_iter = 0
    /\ n >= 2
    /\ Supplied.data[1] # Supplied.data[2]

IsNeighbour(i, j) == \E k \in 1..Len(RowIndices(adjacency, i)) : RowIndices(adjacency, i)[k] = j

EdgeWeight(i, j) ==
    RowData(adjacency, i)[CHOOSE k \in 1..Len(RowIndices(adjacency, i)) :
                              RowIndices(adjacency, i)[k] = j]

(* C3: in every iteration, for every node i, attraction[j] is
   edge_weight(i, j) * distance(i, j) / strength for every neighbour j of i and
   zero for every other j, and the net displacement of i is the sum over j of
   gradient[j] * (repulsion[j] - attraction[j]). *)
C3_AttractionLaw ==
    pc = "scale" =>
        \A i \in 1..n :
            LET grad == Grad(Positions, i)
                distance == Distance(grad)
            IN  /\ \A j \in 1..n :
                       attraction[i][j] =
                           IF IsNeighbour(i, j)
                           THEN FDiv(FMul(EdgeWeight(i, j), distance[j]), strength)
                           ELSE 0
                /\ delta[i] = NetDisplacement(grad, Repulsion(distance, strength), attraction[i])

SingleEdge == n = 2 /\ adjacency.indices = <<2, 1>>

(* C4: for a two-node graph with one edge, the displacements of the two nodes
   are opposite vectors in every iteration, before and after normalisation. *)
C4_ForceSymmetry ==
    (SingleEdge /\ Entered) =>
        /\ delta[1][1] = -delta[2][1]
        /\ delta[1][2] = -delta[2][2]

C4_Witness ==
    /\ SingleEdge
    /\ pc = "scale"
    /\ iteration >= 1
    /\ delta[1][1] # 0
    /\ adjacency.data = <<Float(2), Float(2)>>

HugeTolerance == SetMax(Tolerances)

(* C5: with n_iter >= 1 and a tolerance above every err, the loop ends after
   exactly one iteration, whose position update and cooling have been applied. *)
C5_HugeToleranceOneIteration ==
    (self_tol = HugeTolerance /\ Entered /\ n_iter >= 1) =>
        /\ iteration <= 1
        /\ (iteration = 1 => pc \in {"break", "done"} /\ err < self_tol)
        /\ (pc = "done" =>
               /\ iteration = 1
               /\ Positions = Add(pos0, delta)
               /\ step_max = step_max0 - step)

C5_Witness ==
    /\ self_tol = HugeTolerance
    /\ pc = "done"
    /\ n_iter >= 2
    /\ iteration = 1
    /\ Positions # pos0

LargerSpread(p) == IF Spread(p, 1) >= Spread(p, 2) THEN Spread(p, 1) ELSE Spread(p, 2)

(* C6 as stated: step_max starts at 10% of the larger spread, step is
   step_max / (n_iter + 1), step_max is strictly smaller after every executed
   iteration, equals the initial value minus k steps after k iterations, and
   is never negative. *)
C6_StrictCooling ==
    Entered =>
        /\ step_max0 = TDiv(LargerSpread(pos0), 10)
        /\ step = TDiv(step_max0, n_iter + 1)
        /\ step_max = step_max0 - iteration * step
        /\ step_max >= 0
        /\ (iteration >= 1 => step_max < step_max0 - (iteration - 1) * step)

(* C6 amended: as above, but step_max is strictly smaller after an iteration
   only when the initial spread is positive; when all initial positions
   coincide (always so for n = 1) step is 0 and step_max stays 0. *)
C6_Cooling ==
    Entered =>
        /\ step_max0 = TDiv(LargerSpread(pos0), 10)
        /\ step = TDiv(step_max0, n_iter + 1)
        /\ step_max = step_max0 - iteration * step
        /\ step_max >= 0
        /\ (iteration >= 1 /\ LargerSpread(pos0) > 0
               => step_max < step_max0 - (iteration - 1) * step)
        /\ (LargerSpread(pos0) = 0 => step = 0 /\ step_max = 0)

C6_Witness ==
    /\ pc = "done"
    /\ n_iter = MaxIter
    /\ iteration = n_iter
    /\ step > 0
    /\ step_max > 0

IsShape(obj, rows) ==
    /\ obj.type = "ndarray"
    /\ obj.shape = <<rows, 2>>
    /\ Len(obj.data) = rows
    /\ \A i \in 1..rows : Len(obj.data[i]) = 2

(* C7: on each of the three initialisation paths the position array has shape
   (n, 2), n the adjacency's row count, in every state of the simulation, and
   so has the embedding returned. *)
C7_ShapeInvariant ==
    Entered =>
        /\ path \in {"explicit", "gsvd", "random"}
        /\ n = adjacency.shape[1]
        /\ IsShape(heap[pos], n)
        /\ (pc = "done" => IsShape(heap[embedding_], n))

C7_Witness ==
    /\ pc = "done"
    /\ path = "random"
    /\ n = 3
    /\ iteration >= 1
    /\ Positions # pos0

(* C8: the displacement added to a node's position in an iteration is no longer
   than the step_max of that iteration. *)
C8_StepBound ==
    Updated =>
        \A i \in 1..n :
            delta[i][1] * delta[i][1] + delta[i][2] * delta[i][2]
                <= (step_max + step) * (step_max + step)

Below == {k \in 1..Len(errs) : errs[k] < self_tol}

(* C9: a fit that entered the simulation never raises and every step brings it
   nearer to its return; it executes as many
   iterations as the first one whose err (the norm of the scaled displacement
   array over n) is below the tolerance, or n_iter if there is none, never
   more than n_iter, and then returns the positions. *)
IterationCount ==
    Entered =>
        /\ raised = None
        /\ iteration <= n_iter
        /\ Len(errs) = iteration
        /\ \A k \in 1..(iteration - 1) : ~(errs[k] < self_tol)
        /\ (Updated => err = errs[iteration] /\ err = TDiv(Norm(Flatten(delta)), n))
        /\ (pc = "done" =>
               /\ iteration = (IF Below # {} THEN SetMin(Below) ELSE n_iter)
               /\ embedding_ = pos)

(* what is left of the loop: it shrinks with every step, so the loop ends *)
Remaining ==
    2 * (n_iter - iteration)
    + (CASE pc = "loop" -> 2 [] pc = "scale" -> 1 [] pc = "break" -> 1 [] OTHER -> 0)

Progress ==
    (Entered /\ pc # "done") =>
        /\ Entered'
        /\ Remaining' < Remaining
        /\ Remaining' >= 0

C9_TerminatesWithCount == []IterationCount /\ [][Progress]_vars

C9_Witness ==
    /\ pc = "done"
    /\ iteration = 2
    /\ ~(errs[1] < self_tol)
    /\ errs[2] < self_tol

(* C10: fit leaves the caller's pos_init array as it was and works on, and
   returns, a different array. *)
C10_CallerArrayUntouched ==
    (Entered /\ path = "explicit") =>
        /\ heap[pos_init] = Supplied
        /\ pos # pos_init
        /\ (pc = "done" => embedding_ # pos_init)

C10_Witness ==
    /\ pc = "done"
    /\ path = "explicit"
    /\ iteration >= 1
    /\ heap[embedding_].data # heap[pos_init].data

====
